---- MODULE Spec2Model ----
(***************************************************************************)
(* Model of src/tools/heap-filter.js: the MinHeap class, the two top-K     *)
(* selection strategies filterBulletsByCompany (full sort, "Strategy A")   *)
(* and filterBulletsWithHeap (bounded min-heap, "Strategy B").             *)
(*                                                                         *)
(* JavaScript arrays are 0-indexed; the model keeps the source's 0-based   *)
(* index arithmetic and reads/writes the 1-indexed TLA+ sequences through  *)
(* At and Put.  A bullet is a record; a field the JavaScript object does   *)
(* not have is a field the TLA+ record does not have.                      *)
(***************************************************************************)
EXTENDS Integers, Sequences, FiniteSets, TLC

VARIABLES
    bullets,    \* the caller's array passed to both strategies
    topK,       \* parameter topK
    minScore,   \* parameter minScore
    pc,         \* position of the selection run
    outcomeA,   \* "none" | "returned" | "threw": how filterBulletsByCompany ended
    resultA,    \* the object returned by filterBulletsByCompany
    companies,  \* filterBulletsWithHeap: company -> backing array of its MinHeap
    next,       \* filterBulletsWithHeap: 0-based index of the next forEach element
    outcomeB,   \* "none" | "returned" | "threw": how filterBulletsWithHeap ended
    resultB,    \* the object returned by filterBulletsWithHeap
    first,      \* history: parameters and results of the caller's first request
    request,    \* history: 1 first request, 2 a request in between, 3 the repeat
    heap,       \* a MinHeap driven directly: its backing array this.heap
    inserted,   \* history: records inserted since the heap was last empty
    drained,    \* history: records returned by extractMin since then
    phase,      \* history: "filling" | "draining" | "mixed"
    lastOp,     \* history: the last MinHeap method called
    sizeBefore, \* history: size() just before the last call
    lastRet,    \* history: what the last call returned
    toolPc,     \* position of the running tool
    args,       \* CallTool: request.params.arguments (the array of
                \* resume_data is kept in resumeData when a tool runs alone)
    resumeData, \* the array args.resume_data.data.bullets of a tool run alone
    counts,     \* assignBulletIds: companies; filterBulletsByScore: companyCounts
    at,         \* 0-based index of the next map / filter callback
    out,        \* the bullets array the running map / filter builds
    toolName,   \* CallTool: request.params.name
    webhookUrl, \* N8N_WEBHOOK_URL: {} when not set, else {its value}
    fetched,    \* history: how fetch and response.json() settled
    response    \* what the CallTool handler returned

vars == <<bullets, topK, minScore, pc, outcomeA, resultA, companies, next,
          outcomeB, resultB, first, request, heap, inserted, drained, phase, lastOp,
          sizeBefore, lastRet, toolPc, args, resumeData, counts, at, out,
          toolName, webhookUrl, fetched, response>>

filterVars == <<bullets, topK, minScore, pc, outcomeA, resultA, companies,
                next, outcomeB, resultB, first, request>>

heapVars == <<heap, inserted, drained, phase, lastOp, sizeBefore, lastRet>>

toolVars == <<toolPc, args, resumeData, counts, at, out>>

handlerVars == <<toolName, webhookUrl, fetched, response>>

(***************************************************************************)
(* Bounds of the model.                                                    *)
(***************************************************************************)
MaxLen == 3        \* longest bullets array
MaxScore == 3      \* relevance scores are 1..MaxScore
MaxTopK == 2       \* topK ranges over 1..MaxTopK
MaxInserts == 4    \* inserts into the directly driven heap per round
WideMaxLen == 2    \* longest bullets array of the wide input space

Scores == 1..MaxScore
MinScores == {1, 2}
TopKs == 1..MaxTopK
Companies == {"A"}

\* the wide input space: any company string, any topK
WideCompanies == {"A", "Unknown", "", "constructor"}
WideScores == {1, 2}
WideTopKs == -MaxTopK..MaxTopK

(***************************************************************************)
(* JavaScript values.                                                      *)
(***************************************************************************)
Null == [isNull |-> TRUE]

Undefined == [isUndefined |-> TRUE]

EmptyObject == [k \in {} |-> <<>>]

HasScore(bullet) == "relevance_score" \in DOMAIN bullet

HasCompany(bullet) == "company" \in DOMAIN bullet

\* faulty variant: the comparison of bubbleUp turned around
ScoreGEReversed(a, b) == HasScore(a) /\ HasScore(b) /\ a.relevance_score <= b.relevance_score

\* a >= b on two relevance_score reads; a comparison with undefined is false
ScoreGE(a, b) == HasScore(a) /\ HasScore(b) /\ a.relevance_score >= b.relevance_score

\* a < b on two relevance_score reads; a comparison with undefined is false
ScoreLT(a, b) == HasScore(a) /\ HasScore(b) /\ a.relevance_score < b.relevance_score

\* faulty variant: the threshold test left out
MeetsMinScoreNoThreshold(bullet, min) == HasScore(bullet)

\* bullet.relevance_score >= minScore; undefined >= n is false
MeetsMinScore(bullet, min) == HasScore(bullet) /\ bullet.relevance_score >= min

\* bullet.company || 'Unknown'
CompanyOf(bullet) == IF HasCompany(bullet) /\ bullet.company # "" THEN bullet.company ELSE "Unknown"

At(arr, index) == arr[index + 1]

Put(arr, index, value) == [arr EXCEPT ![index + 1] = value]

(***************************************************************************)
(* class MinHeap                                                           *)
(***************************************************************************)
RECURSIVE bubbleUpLoop(_, _, _)
bubbleUpLoop(h, index, element) ==
    IF index > 0
    THEN LET parentIndex == (index - 1) \div 2
             parent == At(h, parentIndex)
         IN  IF ScoreGE(element, parent)
             THEN h
             ELSE bubbleUpLoop(Put(Put(h, parentIndex, element), index, parent),
                               parentIndex, element)
    ELSE h

bubbleUp(h, index) == bubbleUpLoop(h, index, At(h, index))

\* faulty variant: push without bubbleUp
insertNoBubble(h, bullet) == Append(h, bullet)

insert(h, bullet) == bubbleUp(Append(h, bullet), Len(h))

\* one pass of the while (true) body: the index to swap with, or -1 for null
\* faulty variant: only the left child is looked at
swapIndexLeftOnly(h, index, element) ==
    IF 2 * index + 1 < Len(h) /\ ScoreLT(At(h, 2 * index + 1), element)
    THEN 2 * index + 1
    ELSE -1

swapIndex(h, index, element) ==
    LET length == Len(h)
        leftChildIndex == 2 * index + 1
        rightChildIndex == 2 * index + 2
        swapLeft == IF leftChildIndex < length /\ ScoreLT(At(h, leftChildIndex), element)
                    THEN leftChildIndex ELSE -1
    IN  IF rightChildIndex < length
           /\ \/ swapLeft = -1 /\ ScoreLT(At(h, rightChildIndex), element)
              \/ swapLeft # -1 /\ ScoreLT(At(h, rightChildIndex), At(h, swapLeft))
        THEN rightChildIndex
        ELSE swapLeft

RECURSIVE sinkDownLoop(_, _, _)
sinkDownLoop(h, index, element) ==
    LET swap == swapIndex(h, index, element)
    IN  IF swap = -1
        THEN h
        ELSE sinkDownLoop(Put(Put(h, index, At(h, swap)), swap, element), swap, element)

sinkDown(h, index) == sinkDownLoop(h, index, At(h, index))

\* faulty variant: the last element copied to the root and not popped
extractMinNoPop(h) ==
    IF Len(h) = 0 THEN [heap |-> h, ret |-> Null]
    ELSE IF Len(h) = 1 THEN [heap |-> <<>>, ret |-> h[1]]
    ELSE [heap |-> sinkDown(Put(h, 0, h[Len(h)]), 0), ret |-> h[1]]

\* faulty variant: the last element moved to the root without sinkDown
extractMinNoSink(h) ==
    IF Len(h) = 0 THEN [heap |-> h, ret |-> Null]
    ELSE IF Len(h) = 1 THEN [heap |-> <<>>, ret |-> h[1]]
    ELSE [heap |-> Put(SubSeq(h, 1, Len(h) - 1), 0, h[Len(h)]), ret |-> h[1]]

\* extractMin: the heap afterwards and the value returned
extractMin(h) ==
    IF Len(h) = 0 THEN [heap |-> h, ret |-> Null]
    ELSE IF Len(h) = 1 THEN [heap |-> <<>>, ret |-> h[1]]
    ELSE [heap |-> sinkDown(Put(SubSeq(h, 1, Len(h) - 1), 0, h[Len(h)]), 0),
          ret |-> h[1]]

\* faulty variant: return this.heap[0] without the || null
peekNoNull(h) == IF Len(h) = 0 THEN Undefined ELSE h[1]

\* this.heap[0] || null  (a record is an object, hence truthy)
peek(h) == IF Len(h) = 0 THEN Null ELSE h[1]

size(h) == Len(h)

(***************************************************************************)
(* Array.prototype.sort with (a, b) => b.relevance_score - a.relevance_score *)
(* (stable since ES2019) and Array.prototype.slice(0, end).                *)
(***************************************************************************)
compareDesc(a, b) == b.relevance_score - a.relevance_score

RECURSIVE insertStable(_, _)
insertStable(sorted, x) ==
    IF sorted = <<>> THEN <<x>>
    ELSE IF compareDesc(Head(sorted), x) <= 0
         THEN <<Head(sorted)>> \o insertStable(Tail(sorted), x)
         ELSE <<x>> \o sorted

RECURSIVE sortLoop(_)
sortLoop(arr) ==
    IF arr = <<>> THEN <<>>
    ELSE insertStable(sortLoop(SubSeq(arr, 1, Len(arr) - 1)), arr[Len(arr)])

\* faulty variant: the sort call left out
sortUnsorted(arr) == arr

sort(arr) == sortLoop(arr)

\* faulty variant: the slice call left out
sliceAll(arr, end) == arr

\* arr.slice(0, end): a negative end counts from the back, a large one is clamped
slice(arr, end) ==
    LET stop == IF end < 0 THEN (IF Len(arr) + end > 0 THEN Len(arr) + end ELSE 0)
                ELSE IF end > Len(arr) THEN Len(arr) ELSE end
    IN  SubSeq(arr, 1, stop)

(***************************************************************************)
(* const companies = {}: a property read companies[company] also finds the *)
(* properties every object inherits from Object.prototype.                 *)
(***************************************************************************)
ObjectPrototypeKeys ==
    {"constructor", "toString", "valueOf", "hasOwnProperty", "__proto__"}

\* companies[company] is truthy: an own array or MinHeap, or an inherited value
IsTruthyProperty(cs, company) == company \in DOMAIN cs \/ company \in ObjectPrototypeKeys

\* if (!companies[company]) companies[company] = <empty>
createIfMissing(cs, company) ==
    IF IsTruthyProperty(cs, company) THEN cs ELSE cs @@ (company :> <<>>)

(***************************************************************************)
(* filterBulletsByCompany                                                  *)
(***************************************************************************)
\* faulty variant: a changed copy of the bullet is pushed
groupForEachBodyCopies(cs, bullet, min) ==
    LET company == CompanyOf(bullet)
        created == createIfMissing(cs, company)
    IN  IF MeetsMinScore(bullet, min)
        THEN IF company \in DOMAIN created
             THEN [threw |-> FALSE,
                   companies |-> [created EXCEPT ![company] =
                                      Append(@, [bullet EXCEPT !.id = 0])]]
             ELSE [threw |-> TRUE, companies |-> created]
        ELSE [threw |-> FALSE, companies |-> created]

\* the body of bullets.forEach; companies[company].push on an inherited value
\* that is no array is a TypeError
groupForEachBody(cs, bullet, min) ==
    LET company == CompanyOf(bullet)
        created == createIfMissing(cs, company)
    IN  IF MeetsMinScore(bullet, min)
        THEN IF company \in DOMAIN created
             THEN [threw |-> FALSE,
                   companies |-> [created EXCEPT ![company] = Append(@, bullet)]]
             ELSE [threw |-> TRUE, companies |-> created]
        ELSE [threw |-> FALSE, companies |-> created]

RECURSIVE groupForEach(_, _, _, _)
groupForEach(cs, arr, index, min) ==
    IF index < Len(arr)
    THEN LET step == groupForEachBody(cs, At(arr, index), min)
         IN  IF step.threw THEN step
             ELSE groupForEach(step.companies, arr, index + 1, min)
    ELSE [threw |-> FALSE, companies |-> cs]

\* faulty variant: companies starts with an 'Unknown' group
filterBulletsByCompanySeeded(arr, k, min) ==
    LET grouped == groupForEach("Unknown" :> <<>>, arr, 0, min)
    IN  IF grouped.threw
        THEN [threw |-> TRUE, result |-> EmptyObject]
        ELSE [threw |-> FALSE,
              result |-> [company \in DOMAIN grouped.companies |->
                             slice(sort(grouped.companies[company]), k)]]

\* what the call does: it throws, or it returns result
filterBulletsByCompany(arr, k, min) ==
    LET grouped == groupForEach(EmptyObject, arr, 0, min)
    IN  IF grouped.threw
        THEN [threw |-> TRUE, result |-> EmptyObject]
        ELSE [threw |-> FALSE,
              result |-> [company \in DOMAIN grouped.companies |->
                             slice(sort(grouped.companies[company]), k)]]

(***************************************************************************)
(* filterBulletsWithHeap                                                   *)
(***************************************************************************)
\* faulty variant: no eviction after the insert
heapForEachBodyNoEvict(cs, bullet, k, min) ==
    LET company == CompanyOf(bullet)
        created == createIfMissing(cs, company)
    IN  IF MeetsMinScore(bullet, min)
        THEN IF company \in DOMAIN created
             THEN [threw |-> FALSE,
                   companies |-> [created EXCEPT ![company] = insert(@, bullet)]]
             ELSE [threw |-> TRUE, companies |-> created]
        ELSE [threw |-> FALSE, companies |-> created]

\* faulty variant: eviction at size() >= topK
heapForEachBodyEvictEarly(cs, bullet, k, min) ==
    LET company == CompanyOf(bullet)
        created == createIfMissing(cs, company)
    IN  IF MeetsMinScore(bullet, min)
        THEN IF company \in DOMAIN created
             THEN LET grown == insert(created[company], bullet)
                  IN  [threw |-> FALSE,
                       companies |-> [created EXCEPT ![company] =
                           IF size(grown) >= k THEN extractMin(grown).heap ELSE grown]]
             ELSE [threw |-> TRUE, companies |-> created]
        ELSE [threw |-> FALSE, companies |-> created]

\* the body of bullets.forEach; companies[company].insert on an inherited
\* value that is no MinHeap is a TypeError
heapForEachBody(cs, bullet, k, min) ==
    LET company == CompanyOf(bullet)
        created == createIfMissing(cs, company)
    IN  IF MeetsMinScore(bullet, min)
        THEN IF company \in DOMAIN created
             THEN LET grown == insert(created[company], bullet)
                  IN  [threw |-> FALSE,
                       companies |-> [created EXCEPT ![company] =
                           IF size(grown) > k THEN extractMin(grown).heap ELSE grown]]
             ELSE [threw |-> TRUE, companies |-> created]
        ELSE [threw |-> FALSE, companies |-> created]

\* while (heap.size() > 0) arr.unshift(heap.extractMin())
RECURSIVE drainLoop(_, _)
drainLoop(h, arr) ==
    IF size(h) > 0
    THEN LET e == extractMin(h) IN drainLoop(e.heap, <<e.ret>> \o arr)
    ELSE arr

\* the second loop: every heap drained into a sorted array
heapsToArrays(cs) == [company \in DOMAIN cs |-> sort(drainLoop(cs[company], <<>>))]

(***************************************************************************)
(* Inputs.                                                                 *)
(***************************************************************************)
CompanyChoice == {{}} \cup {{c} : c \in Companies}
ScoreChoice == {{}} \cup {{s} : s \in Scores}

TheOne(S) == CHOOSE x \in S : TRUE

MkBullet(cs, ss, id) ==
    IF cs = {} /\ ss = {} THEN [id |-> id]
    ELSE IF cs = {} THEN [relevance_score |-> TheOne(ss), id |-> id]
    ELSE IF ss = {} THEN [company |-> TheOne(cs), id |-> id]
    ELSE [company |-> TheOne(cs), relevance_score |-> TheOne(ss), id |-> id]

ArraysOfLen(n) ==
    {[k \in 1..n |-> MkBullet(f[k][1], f[k][2], k)] :
        f \in [1..n -> CompanyChoice \X ScoreChoice]}

BulletArrays == UNION {ArraysOfLen(n) : n \in 0..MaxLen}

WideArraysOfLen(n) ==
    {[k \in 1..n |-> MkBullet(f[k][1], f[k][2], k)] :
        f \in [1..n -> ({{}} \cup {{c} : c \in WideCompanies})
                          \X ({{}} \cup {{v} : v \in WideScores})]}

WideBulletArrays == UNION {WideArraysOfLen(n) : n \in 0..WideMaxLen}

(***************************************************************************)
(* One selection request: the caller runs filterBulletsByCompany and then  *)
(* filterBulletsWithHeap on the same bullets, topK and minScore.           *)
(***************************************************************************)
NoRequest == [made |-> FALSE]

HeapIdle ==
    /\ heap = <<>>
    /\ inserted = <<>>
    /\ drained = <<>>
    /\ phase = "filling"
    /\ lastOp = "none"
    /\ sizeBefore = 0
    /\ lastRet = Null

\* an object used as a map: its own keys in creation order and their values
NoKeys == [keys |-> <<>>, val |-> [k \in {} |-> 0]]

NoArguments == [k \in {} |-> 0]

NoResponse == [k \in {} |-> 0]

HandlerIdle ==
    /\ toolName = "none"
    /\ webhookUrl = {}
    /\ fetched = "none"
    /\ response = NoResponse

ToolIdle ==
    /\ HandlerIdle
    /\ toolPc = "none"
    /\ args = NoArguments
    /\ resumeData = <<>>
    /\ counts = NoKeys
    /\ at = 0
    /\ out = <<>>

Init ==
    /\ bullets \in BulletArrays
    /\ topK \in TopKs
    /\ minScore \in MinScores
    /\ pc = "start"
    /\ outcomeA = "none"
    /\ resultA = EmptyObject
    /\ companies = EmptyObject
    /\ next = 0
    /\ outcomeB = "none"
    /\ resultB = EmptyObject
    /\ first = NoRequest
    /\ request = 1
    /\ HeapIdle
    /\ ToolIdle

CallFilterBulletsByCompany ==
    /\ pc = "start"
    /\ LET call == filterBulletsByCompany(bullets, topK, minScore)
       IN  /\ resultA' = call.result
           /\ outcomeA' = IF call.threw THEN "threw" ELSE "returned"
    /\ pc' = "forEach"
    /\ UNCHANGED <<bullets, topK, minScore, companies, next, outcomeB, resultB>>
    /\ UNCHANGED <<first, request>>
    /\ UNCHANGED heapVars
    /\ UNCHANGED toolVars
    /\ UNCHANGED handlerVars

HeapForEach ==
    /\ pc = "forEach"
    /\ next < Len(bullets)
    /\ LET step == heapForEachBody(companies, At(bullets, next), topK, minScore)
       IN  /\ companies' = step.companies
           /\ next' = IF step.threw THEN next ELSE next + 1
           /\ outcomeB' = IF step.threw THEN "threw" ELSE outcomeB
           /\ pc' = IF step.threw THEN "done" ELSE pc
    /\ UNCHANGED <<bullets, topK, minScore, outcomeA, resultA, resultB>>
    /\ UNCHANGED <<first, request>>
    /\ UNCHANGED heapVars
    /\ UNCHANGED toolVars
    /\ UNCHANGED handlerVars

HeapReturn ==
    /\ pc = "forEach"
    /\ next = Len(bullets)
    /\ resultB' = heapsToArrays(companies)
    /\ companies' = [company \in DOMAIN companies |-> <<>>]
    /\ outcomeB' = "returned"
    /\ pc' = "done"
    /\ UNCHANGED <<bullets, topK, minScore, outcomeA, resultA, next>>
    /\ UNCHANGED <<first, request>>
    /\ UNCHANGED heapVars
    /\ UNCHANGED toolVars
    /\ UNCHANGED handlerVars

Next ==
    \/ CallFilterBulletsByCompany
    \/ HeapForEach
    \/ HeapReturn

Spec == Init /\ [][Next]_vars

(***************************************************************************)
(* The same request over the wide input space: companies that are the      *)
(* empty string, the literal 'Unknown' or the name of a property of        *)
(* Object.prototype, and topK zero or negative.                            *)
(***************************************************************************)
WideInit ==
    /\ bullets \in WideBulletArrays
    /\ topK \in WideTopKs
    /\ minScore \in MinScores
    /\ pc = "start"
    /\ outcomeA = "none"
    /\ resultA = EmptyObject
    /\ companies = EmptyObject
    /\ next = 0
    /\ outcomeB = "none"
    /\ resultB = EmptyObject
    /\ first = NoRequest
    /\ request = 1
    /\ HeapIdle
    /\ ToolIdle

WideSpec == WideInit /\ [][Next]_vars

(***************************************************************************)
(* The caller repeats its request on the same bullets array with the same  *)
(* topK and minScore, possibly after a request with other parameters.      *)
(* Both functions keep no state of their own: all a later call can see of  *)
(* an earlier one is the bullets array.                                    *)
(***************************************************************************)
TwiceMaxLen == 2   \* longest bullets array of a repeated request

TwiceInit ==
    /\ bullets \in UNION {ArraysOfLen(n) : n \in 0..TwiceMaxLen}
    /\ topK \in TopKs
    /\ minScore \in MinScores
    /\ pc = "start"
    /\ outcomeA = "none"
    /\ resultA = EmptyObject
    /\ companies = EmptyObject
    /\ next = 0
    /\ outcomeB = "none"
    /\ resultB = EmptyObject
    /\ first = NoRequest
    /\ request = 1
    /\ HeapIdle
    /\ ToolIdle

ThisRequest ==
    [made |-> TRUE, between |-> FALSE, topK |-> topK, minScore |-> minScore,
     outcomeA |-> outcomeA, resultA |-> resultA,
     outcomeB |-> outcomeB, resultB |-> resultB]

\* a call that finds the groups and the position of the call before it
NewCallKeepsLocals ==
    /\ pc' = "start"
    /\ outcomeA' = "none"
    /\ resultA' = EmptyObject
    /\ outcomeB' = "none"
    /\ resultB' = EmptyObject
    /\ UNCHANGED <<companies, next>>
    /\ UNCHANGED bullets
    /\ UNCHANGED heapVars
    /\ UNCHANGED toolVars
    /\ UNCHANGED handlerVars

\* the locals of both functions are fresh in every call
NewCall ==
    /\ pc' = "start"
    /\ outcomeA' = "none"
    /\ resultA' = EmptyObject
    /\ companies' = EmptyObject
    /\ next' = 0
    /\ outcomeB' = "none"
    /\ resultB' = EmptyObject
    /\ UNCHANGED bullets
    /\ UNCHANGED heapVars
    /\ UNCHANGED toolVars
    /\ UNCHANGED handlerVars

CallBetween ==
    /\ pc = "done"
    /\ request = 1
    /\ first' = ThisRequest
    /\ request' = 2
    /\ topK' \in TopKs
    /\ minScore' \in MinScores
    /\ NewCall

CallAgain ==
    /\ pc = "done"
    /\ request \in {1, 2}
    /\ first' = IF request = 1 THEN ThisRequest ELSE [first EXCEPT !.between = TRUE]
    /\ request' = 3
    /\ topK' = first'.topK
    /\ minScore' = first'.minScore
    /\ NewCall

TwiceNext ==
    \/ CallFilterBulletsByCompany
    \/ HeapForEach
    \/ HeapReturn
    \/ CallBetween
    \/ CallAgain

TwiceSpec == TwiceInit /\ [][TwiceNext]_vars

(***************************************************************************)
(* A MinHeap driven directly by insert, extractMin and peek in any order,  *)
(* holding records that have a numeric relevance_score.                    *)
(***************************************************************************)
FilterIdle ==
    /\ bullets = <<>>
    /\ topK = 1
    /\ minScore = 0
    /\ pc = "heap"
    /\ outcomeA = "none"
    /\ resultA = EmptyObject
    /\ companies = EmptyObject
    /\ next = 0
    /\ outcomeB = "none"
    /\ resultB = EmptyObject
    /\ first = NoRequest
    /\ request = 1

HeapInit == FilterIdle /\ HeapIdle /\ ToolIdle

Insert ==
    /\ pc = "heap"
    /\ Len(inserted) < MaxInserts \/ heap = <<>>
    /\ \E s \in Scores :
          LET round == IF heap = <<>> THEN <<>> ELSE inserted
              bullet == [relevance_score |-> s, id |-> Len(round) + 1]
          IN  /\ heap' = insert(heap, bullet)
              /\ inserted' = Append(round, bullet)
    /\ drained' = IF heap = <<>> THEN <<>> ELSE drained
    /\ phase' = IF heap = <<>> \/ phase = "filling" THEN "filling" ELSE "mixed"
    /\ lastOp' = "insert"
    /\ sizeBefore' = size(heap)
    /\ lastRet' = Null
    /\ UNCHANGED filterVars
    /\ UNCHANGED toolVars
    /\ UNCHANGED handlerVars

ExtractMin ==
    /\ pc = "heap"
    /\ LET e == extractMin(heap)
       IN  /\ heap' = e.heap
           /\ lastRet' = e.ret
           /\ drained' = IF size(heap) > 0 THEN Append(drained, e.ret) ELSE drained
    /\ phase' = IF size(heap) > 0 /\ phase = "filling" THEN "draining" ELSE phase
    /\ lastOp' = "extractMin"
    /\ sizeBefore' = size(heap)
    /\ UNCHANGED inserted
    /\ UNCHANGED filterVars
    /\ UNCHANGED toolVars
    /\ UNCHANGED handlerVars

\* faulty variant: a peek that takes the root out of the heap
PeekTakesRoot ==
    /\ pc = "heap"
    /\ lastRet' = peek(heap)
    /\ heap' = extractMin(heap).heap
    /\ lastOp' = "peek"
    /\ sizeBefore' = size(heap)
    /\ UNCHANGED <<inserted, drained, phase>>
    /\ UNCHANGED filterVars
    /\ UNCHANGED toolVars
    /\ UNCHANGED handlerVars

Peek ==
    /\ pc = "heap"
    /\ lastRet' = peek(heap)
    /\ lastOp' = "peek"
    /\ sizeBefore' = size(heap)
    /\ UNCHANGED <<heap, inserted, drained, phase>>
    /\ UNCHANGED filterVars
    /\ UNCHANGED toolVars
    /\ UNCHANGED handlerVars

HeapNext ==
    \/ Insert
    \/ ExtractMin
    \/ Peek

HeapSpec == HeapInit /\ [][HeapNext]_vars

(***************************************************************************)
(* The tools assign_bullet_ids and filter_bullets_by_score.  Both count    *)
(* bullets per company in a plain object keyed by bullet.company.  The     *)
(* companies drawn here are strings that are not properties of             *)
(* Object.prototype, or the field is missing.                              *)
(***************************************************************************)
IdMaxLen == 3      \* longest bullets array given to assign_bullet_ids
ScoreMaxLen == 3   \* longest bullets array given to filter_bullets_by_score

\* companies of assign_bullet_ids; "7" and "10" are canonical array indices
IdCompanies == {"Acme", "7", "10"}

\* the number an integer-like property key stands for
ArrayIndex == ("7" :> 7) @@ ("10" :> 10)

ToolCompanies == {"A", "B"}

\* ToPropertyKey(bullet.company): a missing field is the key "undefined"
ToPropertyKey(bullet) == IF HasCompany(bullet) THEN bullet.company ELSE "undefined"

\* obj[key] || 0
GetOrZero(obj, key) == IF key \in DOMAIN obj.val THEN obj.val[key] ELSE 0

\* obj[key] = (obj[key] || 0) + 1
Increment(obj, key) ==
    [keys |-> IF key \in DOMAIN obj.val THEN obj.keys ELSE Append(obj.keys, key),
     val  |-> [k \in DOMAIN obj.val \cup {key} |->
                  IF k = key THEN GetOrZero(obj, key) + 1 ELSE obj.val[k]]]

RECURSIVE AscendingIndices(_)
AscendingIndices(S) ==
    IF S = {} THEN <<>>
    ELSE LET least == CHOOSE k \in S : \A j \in S : ArrayIndex[k] <= ArrayIndex[j]
         IN  <<least>> \o AscendingIndices(S \ {least})

IsArrayIndex(key) == key \in DOMAIN ArrayIndex

IsNotArrayIndex(key) == ~IsArrayIndex(key)

\* Object.keys(obj): integer-like keys ascending, then the others in
\* creation order
ObjectKeys(obj) ==
    AscendingIndices({k \in DOMAIN obj.val : IsArrayIndex(k)})
        \o SelectSeq(obj.keys, IsNotArrayIndex)

\* arr.indexOf(bullet.company), strict equality: undefined equals no key
indexOf(arr, bullet) ==
    IF HasCompany(bullet) /\ \E i \in 1..Len(arr) : arr[i] = bullet.company
    THEN (CHOOSE i \in 1..Len(arr) :
              /\ arr[i] = bullet.company
              /\ \A j \in 1..(i - 1) : arr[j] # bullet.company) - 1
    ELSE -1

\* the UTF-16 code units of String(n), n >= 0
RECURSIVE NumberToString(_)
NumberToString(n) ==
    IF n < 10 THEN <<48 + n>>
    ELSE NumberToString(n \div 10) \o <<48 + (n % 10)>>

\* `${String.fromCharCode(65 + companyLetter)}${bulletNumber}` as code units
idString(companyLetter, bulletNumber) ==
    <<65 + companyLetter>> \o NumberToString(bulletNumber)

\* { ...bullet, id }
WithId(bullet, id) ==
    [f \in DOMAIN bullet \cup {"id"} |-> IF f = "id" THEN id ELSE bullet[f]]

\* the callback of map in assignBulletIds
assignMapBody(companies0, bullet) ==
    LET key == ToPropertyKey(bullet)
        companies1 == Increment(companies0, key)
        companyLetter == indexOf(ObjectKeys(companies1), bullet)
        bulletNumber == companies1.val[key]
    IN  [companies |-> companies1,
         bullet |-> WithId(bullet, idString(companyLetter, bulletNumber))]

\* a resume bullet: optional company and relevance_score, and a text
ResumeBullet(cs, ss, text) ==
    IF cs = {} /\ ss = {} THEN [text |-> text]
    ELSE IF cs = {} THEN [relevance_score |-> TheOne(ss), text |-> text]
    ELSE IF ss = {} THEN [company |-> TheOne(cs), text |-> text]
    ELSE [company |-> TheOne(cs), relevance_score |-> TheOne(ss), text |-> text]

IdArraysOfLen(n) ==
    {[k \in 1..n |-> ResumeBullet(f[k], {}, k)] :
        f \in [1..n -> {{}} \cup {{c} : c \in IdCompanies}]}

IdInit ==
    /\ FilterIdle
    /\ HeapIdle
    /\ HandlerIdle
    /\ toolPc = "map"
    /\ args = NoArguments
    /\ resumeData \in UNION {IdArraysOfLen(n) : n \in 0..IdMaxLen}
    /\ counts = NoKeys
    /\ at = 0
    /\ out = <<>>

AssignMap ==
    /\ toolPc = "map"
    /\ at < Len(resumeData)
    /\ LET step == assignMapBody(counts, At(resumeData, at))
       IN  /\ counts' = step.companies
           /\ out' = Append(out, step.bullet)
    /\ at' = at + 1
    /\ UNCHANGED <<toolPc, args, resumeData>>
    /\ UNCHANGED filterVars
    /\ UNCHANGED heapVars
    /\ UNCHANGED handlerVars

AssignReturn ==
    /\ toolPc = "map"
    /\ at = Len(resumeData)
    /\ toolPc' = "returned"
    /\ UNCHANGED <<args, resumeData, counts, at, out>>
    /\ UNCHANGED filterVars
    /\ UNCHANGED heapVars
    /\ UNCHANGED handlerVars

IdNext ==
    \/ AssignMap
    \/ AssignReturn

IdSpec == IdInit /\ [][IdNext]_vars

DefaultMinScore == 75

DefaultBulletsPerCompany == 5

\* a parameter with a default value: the default replaces a missing argument
minScoreParam(a) == IF "min_score" \in DOMAIN a THEN a.min_score ELSE DefaultMinScore

bulletsPerCompanyParam(a) ==
    IF "bullets_per_company" \in DOMAIN a THEN a.bullets_per_company
    ELSE DefaultBulletsPerCompany

Orderings(arr) ==
    {[k \in 1..Len(arr) |-> arr[q[k]]] :
        q \in {r \in [1..Len(arr) -> 1..Len(arr)] :
                  \A i, j \in 1..Len(arr) : i # j => r[i] # r[j]}}

\* resumeData.data.bullets.sort((a, b) => b.relevance_score - a.relevance_score)
\* sorts the caller's array in place.  Without a relevance_score the
\* comparator yields NaN, which sort takes as 0: when that makes the
\* comparator inconsistent the order is implementation-defined.
sortByScore(arr) ==
    IF \A k \in 1..Len(arr) : HasScore(arr[k]) THEN {sort(arr)}
    ELSE IF \A j, k \in 1..Len(arr) :
                HasScore(arr[j]) /\ HasScore(arr[k])
                    => arr[j].relevance_score = arr[k].relevance_score
         THEN {arr}
         ELSE Orderings(arr)

\* the callback of filter in filterBulletsByScore; undefined < n is false
filterBody(companyCounts0, bullet, min, bulletsPerCompany) ==
    IF ScoreLT(bullet, [relevance_score |-> min])
    THEN [companyCounts |-> companyCounts0, keep |-> FALSE]
    ELSE LET key == ToPropertyKey(bullet)
             companyCounts1 == Increment(companyCounts0, key)
         IN  [companyCounts |-> companyCounts1,
              keep |-> companyCounts1.val[key] <= bulletsPerCompany]

ScoreArraysOfLen(n) ==
    {[k \in 1..n |-> ResumeBullet(f[k][1], f[k][2], k)] :
        f \in [1..n -> ({{}} \cup {{c} : c \in ToolCompanies}) \X ScoreChoice]}

\* the arguments min_score and bullets_per_company, each one optional
ScoreArguments ==
    {NoArguments}
        \cup {[min_score |-> m] : m \in MinScores}
        \cup {[bullets_per_company |-> n] : n \in TopKs}
        \cup {[min_score |-> m, bullets_per_company |-> n] :
                 m \in MinScores, n \in TopKs}

ScoreInit ==
    /\ FilterIdle
    /\ HeapIdle
    /\ HandlerIdle
    /\ toolPc = "sort"
    /\ args \in ScoreArguments
    /\ resumeData \in UNION {ScoreArraysOfLen(n) : n \in 0..ScoreMaxLen}
    /\ counts = NoKeys
    /\ at = 0
    /\ out = <<>>

ScoreSort ==
    /\ toolPc = "sort"
    /\ resumeData' \in sortByScore(resumeData)
    /\ toolPc' = "filter"
    /\ UNCHANGED <<args, counts, at, out>>
    /\ UNCHANGED filterVars
    /\ UNCHANGED heapVars
    /\ UNCHANGED handlerVars

ScoreFilter ==
    /\ toolPc = "filter"
    /\ at < Len(resumeData)
    /\ LET bullet == At(resumeData, at)
           step == filterBody(counts, bullet, minScoreParam(args),
                              bulletsPerCompanyParam(args))
       IN  /\ counts' = step.companyCounts
           /\ out' = IF step.keep THEN Append(out, bullet) ELSE out
    /\ at' = at + 1
    /\ UNCHANGED <<toolPc, args, resumeData>>
    /\ UNCHANGED filterVars
    /\ UNCHANGED heapVars
    /\ UNCHANGED handlerVars

ScoreReturn ==
    /\ toolPc = "filter"
    /\ at = Len(resumeData)
    /\ toolPc' = "returned"
    /\ UNCHANGED <<args, resumeData, counts, at, out>>
    /\ UNCHANGED filterVars
    /\ UNCHANGED heapVars
    /\ UNCHANGED handlerVars

ScoreNext ==
    \/ ScoreSort
    \/ ScoreFilter
    \/ ScoreReturn

ScoreSpec == ScoreInit /\ [][ScoreNext]_vars

(***************************************************************************)
(* The CallTool request handler: a switch over the tool name inside a      *)
(* try block, and a catch block that turns every error into a response.    *)
(* A tool either returns a value or throws an error object; a text is the  *)
(* pair of its first characters and what follows them.                     *)
(***************************************************************************)
HandlerMaxLen == 2   \* longest bullets array in a CallTool request

Return(value) == [threw |-> FALSE, value |-> value]

Throw(name, message) == [threw |-> TRUE, error |-> [name |-> name, message |-> message]]

RegisteredTools ==
    {"fetch_resume_data", "assign_bullet_ids", "delete_bullets_by_id",
     "filter_bullets_by_score"}

\* !N8N_WEBHOOK_URL: undefined and the empty string are falsy
NotConfigured(url) == url = {} \/ url = {""}

\* resumeData.data.bullets can be read
HasBullets(a) ==
    /\ "resume_data" \in DOMAIN a
    /\ "data" \in DOMAIN a.resume_data
    /\ "bullets" \in DOMAIN a.resume_data.data

WithBullets(resume, arr) == [resume EXCEPT !.data = [@ EXCEPT !.bullets = arr]]

RECURSIVE assignMapLoop(_, _)
assignMapLoop(companies0, arr) ==
    IF arr = <<>> THEN <<>>
    ELSE LET step == assignMapBody(companies0, Head(arr))
         IN  <<step.bullet>> \o assignMapLoop(step.companies, Tail(arr))

assignBulletIds(a) ==
    IF ~HasBullets(a)
    THEN Throw("TypeError", "Cannot read properties of undefined")
    ELSE Return(WithBullets(a.resume_data,
                            assignMapLoop(NoKeys, a.resume_data.data.bullets)))

\* !bulletIds.includes(bullet.id); a bullet without id has the id undefined
NotListed(bulletIds, bullet) ==
    ~("id" \in DOMAIN bullet /\ \E i \in 1..Len(bulletIds) : bulletIds[i] = bullet.id)

RECURSIVE deleteFilterLoop(_, _)
deleteFilterLoop(arr, bulletIds) ==
    IF arr = <<>> THEN <<>>
    ELSE (IF NotListed(bulletIds, Head(arr)) THEN <<Head(arr)>> ELSE <<>>)
             \o deleteFilterLoop(Tail(arr), bulletIds)

\* the filter callback reads bulletIds.includes only when there is a bullet
deleteBulletsById(a) ==
    IF ~HasBullets(a)
    THEN Throw("TypeError", "Cannot read properties of undefined")
    ELSE IF a.resume_data.data.bullets # <<>> /\ "bullet_ids" \notin DOMAIN a
    THEN Throw("TypeError", "Cannot read properties of undefined")
    ELSE Return(WithBullets(a.resume_data,
                            deleteFilterLoop(a.resume_data.data.bullets,
                                             IF "bullet_ids" \in DOMAIN a
                                             THEN a.bullet_ids ELSE <<>>)))

RECURSIVE scoreFilterLoop(_, _, _, _)
scoreFilterLoop(companyCounts0, arr, min, bulletsPerCompany) ==
    IF arr = <<>> THEN <<>>
    ELSE LET step == filterBody(companyCounts0, Head(arr), min, bulletsPerCompany)
         IN  (IF step.keep THEN <<Head(arr)>> ELSE <<>>)
                 \o scoreFilterLoop(step.companyCounts, Tail(arr), min,
                                    bulletsPerCompany)

\* what filterBulletsByScore can do, the order its sort may leave included:
\* the outcome and the caller's array afterwards
filterBulletsByScore(a) ==
    IF ~HasBullets(a)
    THEN {[outcome |-> Throw("TypeError", "Cannot read properties of undefined"),
           args |-> a]}
    ELSE {[outcome |-> Return(WithBullets(a.resume_data,
                          scoreFilterLoop(NoKeys, sorted, minScoreParam(a),
                                          bulletsPerCompanyParam(a)))),
           args |-> [a EXCEPT !.resume_data = WithBullets(@, sorted)]] :
             sorted \in sortByScore(a.resume_data.data.bullets)}

\* JSON.stringify(result, null, 2) of an object: "{" and the members
stringify(result) == <<"{", result>>

\* faulty variant: a catch block that throws the error on
respondToErrorRethrows(error) == [rejected |-> error]

\* the catch block
respondToError(error) ==
    [content |-> <<[type |-> "text", text |-> <<"Error: ", error.message>>]>>,
     isError |-> TRUE]

\* the end of the try block, or the catch block
respond(outcome) ==
    IF outcome.threw THEN respondToError(outcome.error)
    ELSE [content |-> <<[type |-> "text", text |-> stringify(outcome.value)]>>]

AnId == <<65, 49>>   \* "A1"

HandlerBullets(k) ==
    {ResumeBullet(cs, ss, k) : cs \in {{}, {"A"}}, ss \in {{}} \cup {{v} : v \in WideScores}}
        \cup {WithId(ResumeBullet(cs, ss, k), AnId) :
                 cs \in {{}, {"A"}}, ss \in {{}} \cup {{v} : v \in WideScores}}

HandlerArraysOfLen(n) == {arr \in [1..n -> UNION {HandlerBullets(k) : k \in 1..n}] :
                             \A k \in 1..n : arr[k] \in HandlerBullets(k)}

\* args.resume_data: missing, an object without data, or one with bullets
ResumeDataChoice ==
    {{}, {NoArguments}}
        \cup {{[data |-> [bullets |-> arr]]} :
                 arr \in UNION {HandlerArraysOfLen(n) : n \in 0..HandlerMaxLen}}

\* args with resume_data added when the request has one
WithResumeData(a, rs) ==
    IF rs = {} THEN a
    ELSE [f \in DOMAIN a \cup {"resume_data"} |->
             IF f = "resume_data" THEN TheOne(rs) ELSE a[f]]

\* request.params.arguments of a request for tool name; Undefined when the
\* request has none
ArgumentsFor(name) ==
    {Undefined} \cup
    CASE name = "fetch_resume_data" -> {NoArguments, [job_number |-> 33]}
      [] name = "assign_bullet_ids" ->
             {WithResumeData(NoArguments, rs) : rs \in ResumeDataChoice}
      [] name = "delete_bullets_by_id" ->
             {WithResumeData(a, rs) :
                 a \in {NoArguments, [bullet_ids |-> <<>>], [bullet_ids |-> <<AnId>>]},
                 rs \in ResumeDataChoice}
      [] name = "filter_bullets_by_score" ->
             {WithResumeData(a, rs) : a \in ScoreArguments, rs \in ResumeDataChoice}
      [] OTHER -> {NoArguments}

HandlerInit ==
    /\ FilterIdle
    /\ HeapIdle
    /\ toolPc = "called"
    /\ toolName \in RegisteredTools \cup {"no_such_tool"}
    /\ args \in ArgumentsFor(toolName)
    /\ webhookUrl \in {{}, {""}, {"https://n8n/webhook"}}
    /\ fetched = "none"
    /\ response = NoResponse
    /\ resumeData = <<>>
    /\ counts = NoKeys
    /\ at = 0
    /\ out = <<>>

HandlerFrame ==
    /\ UNCHANGED <<toolName, webhookUrl, resumeData, counts, at, out>>
    /\ UNCHANGED filterVars
    /\ UNCHANGED heapVars

\* case 'fetch_resume_data' up to the await of fetch: reading
\* args.job_number or the missing URL throws
CallFetchResumeData ==
    /\ toolPc = "called"
    /\ toolName = "fetch_resume_data"
    /\ IF args = Undefined
       THEN /\ response' = respond(Throw("TypeError", "Cannot read properties of undefined"))
            /\ toolPc' = "responded"
       ELSE IF NotConfigured(webhookUrl)
       THEN /\ response' = respond(Throw("Error", "N8N_WEBHOOK_URL not configured in .env file"))
            /\ toolPc' = "responded"
       ELSE /\ response' = response
            /\ toolPc' = "awaiting"
    /\ UNCHANGED <<args, fetched>>
    /\ HandlerFrame

\* fetch and response.json() settle: the network decides how
FetchSettles ==
    /\ toolPc = "awaiting"
    /\ \E settled \in {"resolved", "fetch rejected", "json rejected"} :
          /\ fetched' = settled
          /\ response' =
                respond(CASE settled = "resolved" -> Return([data |-> [bullets |-> <<>>]])
                          [] settled = "fetch rejected" -> Throw("TypeError", "fetch failed")
                          [] OTHER -> Throw("SyntaxError", "Unexpected token"))
    /\ toolPc' = "responded"
    /\ UNCHANGED args
    /\ HandlerFrame

CallAssignBulletIds ==
    /\ toolPc = "called"
    /\ toolName = "assign_bullet_ids"
    /\ response' = respond(IF args = Undefined
                           THEN Throw("TypeError", "Cannot read properties of undefined")
                           ELSE assignBulletIds(args))
    /\ toolPc' = "responded"
    /\ UNCHANGED <<args, fetched>>
    /\ HandlerFrame

CallDeleteBulletsById ==
    /\ toolPc = "called"
    /\ toolName = "delete_bullets_by_id"
    /\ response' = respond(IF args = Undefined
                           THEN Throw("TypeError", "Cannot read properties of undefined")
                           ELSE deleteBulletsById(args))
    /\ toolPc' = "responded"
    /\ UNCHANGED <<args, fetched>>
    /\ HandlerFrame

CallFilterBulletsByScore ==
    /\ toolPc = "called"
    /\ toolName = "filter_bullets_by_score"
    /\ IF args = Undefined
       THEN /\ response' = respond(Throw("TypeError", "Cannot read properties of undefined"))
            /\ args' = args
       ELSE \E call \in filterBulletsByScore(args) :
               /\ response' = respond(call.outcome)
               /\ args' = call.args
    /\ toolPc' = "responded"
    /\ UNCHANGED fetched
    /\ HandlerFrame

\* default: throw new Error(`Unknown tool: ${name}`)
CallUnknownTool ==
    /\ toolPc = "called"
    /\ toolName \notin RegisteredTools
    /\ response' = respond(Throw("Error", <<"Unknown tool: ", toolName>>))
    /\ toolPc' = "responded"
    /\ UNCHANGED <<args, fetched>>
    /\ HandlerFrame

HandlerNext ==
    \/ CallFetchResumeData
    \/ FetchSettles
    \/ CallAssignBulletIds
    \/ CallDeleteBulletsById
    \/ CallFilterBulletsByScore
    \/ CallUnknownTool

HandlerSpec == HandlerInit /\ [][HandlerNext]_vars

(***************************************************************************)
(* What the claims speak about, stated on the inputs and not through the   *)
(* operators above.                                                        *)
(***************************************************************************)
Min2(a, b) == IF a < b THEN a ELSE b

Max2(a, b) == IF a > b THEN a ELSE b

\* the group a bullet belongs to
KeyOf(b) == IF "company" \in DOMAIN b THEN b.company ELSE "Unknown"

\* the bullet has a score and it reaches the threshold
Qualifies(b) == "relevance_score" \in DOMAIN b /\ b.relevance_score >= minScore

\* positions among the first n bullets that hold a qualifying bullet of group g
QualIdx(g, n) == {k \in 1..n : KeyOf(bullets[k]) = g /\ Qualifies(bullets[k])}

\* among the positions q: how many bullets score v, how many score more
CntEQ(q, v) == Cardinality({k \in q : bullets[k].relevance_score = v})

CntGT(q, v) == Cardinality({k \in q : bullets[k].relevance_score > v})

\* how many bullets of score v are among the topK highest of the positions q
TopKCount(q, v) == Min2(CntEQ(q, v), Max2(0, topK - CntGT(q, v)))

Elements(seq) == {seq[i] : i \in 1..Len(seq)}

Count(seq, v) == Cardinality({i \in 1..Len(seq) : seq[i].relevance_score = v})

\* seq holds qualifying bullets of group g, and its scores are the topK highest
HoldsTopK(seq, g, n) ==
    LET q == QualIdx(g, n)
    IN  /\ Elements(seq) \subseteq {bullets[k] : k \in q}
        /\ \A v \in Scores : Count(seq, v) = TopKCount(q, v)

InputKeys == {KeyOf(bullets[k]) : k \in 1..Len(bullets)}

\* some group has more qualifying bullets than topK
Truncating == \E g \in InputKeys : Cardinality(QualIdx(g, Len(bullets))) > topK

\* P holds of every result returned so far
BothResults(P(_)) ==
    /\ outcomeA = "returned" => P(resultA)
    /\ outcomeB = "returned" => P(resultB)

(***************************************************************************)
(* C1: for topK >= 1, each group in the result of filterBulletsByCompany   *)
(* and of filterBulletsWithHeap holds at most topK records.                *)
(***************************************************************************)
GroupSizeAtMostTopK(R) == \A g \in DOMAIN R : Len(R[g]) <= topK

C1_AtMostTopK == BothResults(GroupSizeAtMostTopK)

C1_Witness ==
    /\ pc = "done"
    /\ \E g \in InputKeys :
          /\ Cardinality(QualIdx(g, Len(bullets))) > topK
          /\ Len(resultA[g]) = topK
          /\ Len(resultB[g]) = topK

(***************************************************************************)
(* C2: every record in any group of either result has a relevance_score    *)
(* that is >= minScore; no record below the threshold is returned.         *)
(***************************************************************************)
AllReachMinScore(R) ==
    \A g \in DOMAIN R : \A i \in 1..Len(R[g]) :
        /\ "relevance_score" \in DOMAIN R[g][i]
        /\ R[g][i].relevance_score >= minScore

C2_ScoreAtLeastMinScore == BothResults(AllReachMinScore)

C2_Witness ==
    /\ pc = "done"
    /\ \E k, m \in 1..Len(bullets) :
          /\ KeyOf(bullets[k]) = KeyOf(bullets[m])
          /\ "relevance_score" \in DOMAIN bullets[k]
          /\ bullets[k].relevance_score < minScore
          /\ Qualifies(bullets[m])
          /\ resultA[KeyOf(bullets[m])] = <<bullets[m]>>
          /\ resultB[KeyOf(bullets[m])] = <<bullets[m]>>

(***************************************************************************)
(* C3: each group's sequence in either result is ordered by                *)
(* relevance_score non-increasing.                                         *)
(***************************************************************************)
NonIncreasing(R) ==
    \A g \in DOMAIN R : \A i \in 1..Len(R[g]) - 1 :
        R[g][i].relevance_score >= R[g][i + 1].relevance_score

C3_SortedNonIncreasing == BothResults(NonIncreasing)

\* a group whose two kept bullets arrive in ascending order of score
C3_Witness ==
    /\ pc = "done"
    /\ \E g \in InputKeys :
          /\ Len(resultA[g]) >= 2
          /\ Len(resultB[g]) >= 2
          /\ resultA[g][1].id > resultA[g][2].id
          /\ resultB[g][1].id > resultB[g][2].id
          /\ resultA[g][1].relevance_score > resultA[g][2].relevance_score

(***************************************************************************)
(* C4: called with the same bullets, topK and minScore, the two strategies *)
(* return the same group keys and per key the same multiset of scores,     *)
(* when no group has a tie at its K-th boundary.                           *)
(***************************************************************************)
\* the topK-th and the (topK+1)-th highest qualifying score of g are equal
BoundaryTie(g) ==
    LET q == QualIdx(g, Len(bullets))
    IN  \E v \in Scores :
            /\ CntGT(q, v) < topK
            /\ CntGT(q, v) + CntEQ(q, v) > topK

NoBoundaryTies == \A g \in InputKeys : ~BoundaryTie(g)

SameScoreMultisets ==
    /\ DOMAIN resultA = DOMAIN resultB
    /\ \A g \in DOMAIN resultA :
          /\ Len(resultA[g]) = Len(resultB[g])
          /\ \A v \in Scores : Count(resultA[g], v) = Count(resultB[g], v)

C4_StrategyEquivalence == (pc = "done" /\ NoBoundaryTies) => SameScoreMultisets

C4_Witness ==
    /\ pc = "done"
    /\ NoBoundaryTies
    /\ Truncating
    /\ Cardinality(DOMAIN resultA) = 2
    /\ \A g \in DOMAIN resultB : Len(resultB[g]) >= 1

(***************************************************************************)
(* C7: while filterBulletsWithHeap walks the bullets (topK >= 1), after    *)
(* each bullet every group's heap has size <= topK and holds exactly the   *)
(* topK highest scores among the qualifying bullets of that group seen so  *)
(* far (all of them when fewer than topK were seen).                       *)
(***************************************************************************)
C7_HeapHoldsTopKSoFar ==
    pc = "forEach" =>
        /\ DOMAIN companies = {KeyOf(bullets[k]) : k \in 1..next}
        /\ \A g \in DOMAIN companies :
              /\ size(companies[g]) <= topK
              /\ size(companies[g]) = Min2(topK, Cardinality(QualIdx(g, next)))
              /\ HoldsTopK(companies[g], g, next)

\* a bullet was evicted that was not the one just inserted
C7_Witness ==
    /\ pc = "forEach"
    /\ next = Len(bullets)
    /\ \E g \in DOMAIN companies :
          /\ Cardinality(QualIdx(g, next)) > topK
          /\ \E i \in 1..Len(companies[g]) : companies[g][i] = bullets[next]

(***************************************************************************)
(* C8: for topK >= 1, in either result no qualifying bullet of a group     *)
(* that was left out of the group's result has a score strictly greater    *)
(* than a bullet kept in it; the kept scores are the K highest.            *)
(***************************************************************************)
NoBetterLeftOut(R) ==
    \A g \in DOMAIN R :
        LET kept == Elements(R[g])
        IN  \A k \in QualIdx(g, Len(bullets)) :
                bullets[k] \notin kept =>
                    \A r \in kept : bullets[k].relevance_score <= r.relevance_score

KeepsHighest(R) == \A g \in DOMAIN R : HoldsTopK(R[g], g, Len(bullets))

TopKOptimal(R) == NoBetterLeftOut(R) /\ KeepsHighest(R)

C8_TopKOptimal == BothResults(TopKOptimal)

\* a qualifying bullet was left out of both results, a better one kept
C8_Witness ==
    /\ pc = "done"
    /\ \E g \in InputKeys : \E k \in QualIdx(g, Len(bullets)) :
          /\ resultA[g] # <<>> /\ resultB[g] # <<>>
          /\ \A i \in 1..Len(resultA[g]) :
                resultA[g][i].relevance_score > bullets[k].relevance_score
          /\ \A i \in 1..Len(resultB[g]) :
                resultB[g][i].relevance_score > bullets[k].relevance_score

(***************************************************************************)
(* C9: for topK >= 1, each group's result in either strategy holds exactly *)
(* min(topK, number of the group's bullets with score >= minScore)         *)
(* records, also when several bullets tie at the K-th score.               *)
(***************************************************************************)
ExactGroupSize(R) ==
    \A g \in DOMAIN R :
        Len(R[g]) = Min2(topK, Cardinality(QualIdx(g, Len(bullets))))

C9_CardinalityUnderTies == BothResults(ExactGroupSize)

\* topK = 1 and two bullets of one group tied at the highest score
C9_Witness ==
    /\ pc = "done"
    /\ topK = 1
    /\ \E g \in InputKeys : \E k, m \in QualIdx(g, Len(bullets)) :
          /\ k # m
          /\ bullets[k].relevance_score = bullets[m].relevance_score
          /\ CntGT(QualIdx(g, Len(bullets)), bullets[k].relevance_score) = 0
          /\ Len(resultA[g]) = 1
          /\ Len(resultB[g]) = 1

(***************************************************************************)
(* C10: a bullet missing relevance_score makes the selection fail with an  *)
(* error in both strategies; it is never silently dropped or ranked.       *)
(***************************************************************************)
SomeScoreMissing == \E k \in 1..Len(bullets) : "relevance_score" \notin DOMAIN bullets[k]

C10_MissingScoreFailsFast ==
    SomeScoreMissing => (outcomeA # "returned" /\ outcomeB # "returned")

(***************************************************************************)
(* C5: from an empty MinHeap, inserts followed by extractMin calls until   *)
(* the heap is empty yield the records in non-decreasing relevance_score   *)
(* order, and exactly the multiset of records that were inserted.          *)
(***************************************************************************)
C5_HeapSortsInserted ==
    phase = "draining" =>
        /\ \A i \in 1..Len(drained) - 1 :
              drained[i].relevance_score <= drained[i + 1].relevance_score
        /\ Len(drained) + Len(heap) = Len(inserted)
        /\ Elements(drained) \cup Elements(heap) = Elements(inserted)
        /\ heap = <<>> => Elements(drained) = Elements(inserted)

\* a full round whose inserts came in descending order
C5_Witness ==
    /\ phase = "draining"
    /\ heap = <<>>
    /\ Len(inserted) = MaxInserts
    /\ Len(drained) = MaxInserts
    /\ inserted[1].relevance_score > inserted[2].relevance_score
    /\ inserted[2].relevance_score > inserted[3].relevance_score
    /\ drained # inserted

(***************************************************************************)
(* C6: extractMin and peek on an empty MinHeap return null and leave the   *)
(* heap empty, also after earlier inserts and extractions emptied it.      *)
(***************************************************************************)
C6_EmptyHeapReturnsNull ==
    (lastOp \in {"extractMin", "peek"} /\ sizeBefore = 0) =>
        /\ lastRet = Null
        /\ heap = <<>>
        /\ size(heap) = 0

C6_Witness ==
    /\ lastOp = "extractMin"
    /\ sizeBefore = 0
    /\ lastRet = Null
    /\ Len(drained) >= 2

(***************************************************************************)
(* C11: when topK <= 0 every group in the result of either strategy maps   *)
(* to an empty sequence, whatever the number of qualifying records.        *)
(***************************************************************************)
AllGroupsEmpty(R) == \A g \in DOMAIN R : R[g] = <<>>

C11_NonPositiveTopKGivesEmpty == topK <= 0 => BothResults(AllGroupsEmpty)

(***************************************************************************)
(* C12: a record whose company is absent or null is placed in the group    *)
(* "Unknown", together with the records whose company is literally         *)
(* "Unknown"; every other record is placed in the group keyed by its own   *)
(* company string.                                                         *)
(***************************************************************************)
\* the contract's inputs: every bullet has a score, topK is positive
WithinContract ==
    /\ topK >= 1
    /\ \A k \in 1..Len(bullets) : "relevance_score" \in DOMAIN bullets[k]

PlacedByOwnCompany(R) ==
    /\ DOMAIN R = InputKeys
    /\ \A g \in DOMAIN R : \A r \in Elements(R[g]) : KeyOf(r) = g

C12_GroupedByCompany ==
    WithinContract =>
        /\ outcomeA # "threw"
        /\ outcomeB # "threw"
        /\ BothResults(PlacedByOwnCompany)

(***************************************************************************)
(* C13: in both strategies a company that occurs in the input but has no   *)
(* record with score >= minScore is present in the result, mapped to an    *)
(* empty sequence.                                                         *)
(***************************************************************************)
\* the group of a bullet, an empty company string counted as no company
KeyOrUnknown(b) == IF KeyOf(b) = "" THEN "Unknown" ELSE KeyOf(b)

EmptyGroupsPresent(R) ==
    \A k \in 1..Len(bullets) :
        LET g == KeyOrUnknown(bullets[k])
        IN  (\A m \in 1..Len(bullets) :
                KeyOrUnknown(bullets[m]) = g => ~Qualifies(bullets[m]))
            => (g \in DOMAIN R /\ R[g] = <<>>)

C13_EmptyGroupsPresent == WithinContract => BothResults(EmptyGroupsPresent)

(***************************************************************************)
(* C16: called with an empty records sequence, both strategies return an   *)
(* empty mapping, for any topK and minScore.                               *)
(***************************************************************************)
C16_EmptyInputEmptyMapping ==
    bullets = <<>> =>
        /\ outcomeA # "threw" /\ outcomeB # "threw"
        /\ outcomeA = "returned" => DOMAIN resultA = {}
        /\ outcomeB = "returned" => DOMAIN resultB = {}

C16_Witness ==
    /\ bullets = <<>>
    /\ topK <= 0
    /\ pc = "done"
    /\ outcomeA = "returned"
    /\ outcomeB = "returned"
    /\ resultA = EmptyObject
    /\ resultB = EmptyObject

(***************************************************************************)
(* C14: calling select twice with the same records, topK and minScore      *)
(* yields the same multiset of records per group, whichever strategy is    *)
(* used for each call and whatever other calls happened in between.        *)
(***************************************************************************)
SameRecords(R, S) ==
    /\ DOMAIN R = DOMAIN S
    /\ \A g \in DOMAIN R : Len(R[g]) = Len(S[g]) /\ Elements(R[g]) = Elements(S[g])

SameScores(R, S) ==
    /\ DOMAIN R = DOMAIN S
    /\ \A g \in DOMAIN R :
          /\ Len(R[g]) = Len(S[g])
          /\ \A v \in Scores : Count(R[g], v) = Count(S[g], v)

Repeated == request = 3 /\ pc = "done"

ReturnedVerbatim(R) ==
    \A g \in DOMAIN R : \A k \in 1..Len(R[g]) :
        \E j \in 1..Len(bullets) : R[g][k] = bullets[j]

ResultsVerbatim == ReturnedVerbatim(resultA) /\ ReturnedVerbatim(resultB)

C15_Purity == [][bullets' = bullets /\ ResultsVerbatim']_vars

\* both strategies returned a group in another order than the input's,
\* and the input still has its own order
C15_Witness ==
    /\ pc = "done"
    /\ outcomeA = "returned" /\ outcomeB = "returned"
    /\ Len(bullets) >= 2
    /\ \A k \in 1..Len(bullets) : bullets[k].id = k
    /\ \E g \in DOMAIN resultA :
          /\ Len(resultA[g]) >= 2
          /\ resultA[g][1].id > resultA[g][2].id
    /\ \E g \in DOMAIN resultB :
          /\ Len(resultB[g]) >= 2
          /\ resultB[g][1].id > resultB[g][2].id

(***************************************************************************)
(* C17: assign_bullet_ids gives every bullet an ID unique among all        *)
(* bullets of the resume data: a letter determined by the bullet's company *)
(* (A for the first company to appear, B for the second, ...) followed by  *)
(* the bullet's 1-based running number within that company; no two bullets *)
(* receive the same ID.  Stated for bullets that all name their company.   *)
(***************************************************************************)
AllNameCompany == \A k \in 1..Len(resumeData) : "company" \in DOMAIN resumeData[k]

FirstAppearance(k) ==
    CHOOSE f \in 1..k :
        /\ resumeData[f].company = resumeData[k].company
        /\ \A j \in 1..(f - 1) : resumeData[j].company # resumeData[k].company

\* how many companies appeared before the company of bullet k did
CompaniesBefore(k) ==
    Cardinality({resumeData[j].company : j \in 1..(FirstAppearance(k) - 1)})

RunningNumber(k) ==
    Cardinality({j \in 1..k : resumeData[j].company = resumeData[k].company})

\* "A1", "B2", ... as code units: "A" is 65, "1" is 49
ExpectedId(k) == <<65 + CompaniesBefore(k), 48 + RunningNumber(k)>>

C17_UniqueLetterNumberIds ==
    (toolPc = "returned" /\ AllNameCompany) =>
        /\ Len(out) = Len(resumeData)
        /\ \A k \in 1..Len(out) : out[k].id = ExpectedId(k)
        /\ \A j, k \in 1..Len(out) : j # k => out[j].id # out[k].id

(***************************************************************************)
(* C18: filter_bullets_by_score returns only bullets with relevance_score  *)
(* >= min_score and at most bullets_per_company bullets for each company,  *)
(* and the bullets kept for a company are that company's highest-scoring   *)
(* qualifying bullets.                                                     *)
(***************************************************************************)
MinScoreAsked == IF "min_score" \in DOMAIN args THEN args.min_score ELSE 75

PerCompanyAsked ==
    IF "bullets_per_company" \in DOMAIN args THEN args.bullets_per_company ELSE 5

\* the company of a resume bullet; bullets without one form a group
ResumeKey(b) == IF "company" \in DOMAIN b THEN b.company ELSE "undefined"

ScoreQualifies(b) ==
    "relevance_score" \in DOMAIN b /\ b.relevance_score >= MinScoreAsked

KeptOf(g) == {k \in 1..Len(out) : ResumeKey(out[k]) = g}

QualifyingOf(g) ==
    {k \in 1..Len(resumeData) :
        ResumeKey(resumeData[k]) = g /\ ScoreQualifies(resumeData[k])}

C18_OnlyTopScoring ==
    toolPc = "returned" =>
        /\ \A k \in 1..Len(out) : ScoreQualifies(out[k])
        /\ \A k \in 1..Len(out) : out[k] \in Elements(resumeData)
        /\ \A g \in {ResumeKey(resumeData[k]) : k \in 1..Len(resumeData)} :
              /\ Cardinality(KeptOf(g)) = Min2(PerCompanyAsked, Cardinality(QualifyingOf(g)))
              /\ \A k \in KeptOf(g) : \A q \in QualifyingOf(g) :
                    resumeData[q] \notin Elements(out)
                        => resumeData[q].relevance_score <= out[k].relevance_score

\* the same for bullets that all carry a relevance_score
C18_HoldsWithScores ==
    (\A k \in 1..Len(resumeData) : "relevance_score" \in DOMAIN resumeData[k])
        => C18_OnlyTopScoring

(***************************************************************************)
(* C19: after any interleaving of insert and extractMin calls on a         *)
(* MinHeap, every element of the backing array at index i > 0 has a score  *)
(* >= the score of its parent at index floor((i-1)/2), so the root always  *)
(* holds a minimum score.                                                  *)
(***************************************************************************)
C19_HeapOrder ==
    /\ \A i \in 1..(Len(heap) - 1) :
          At(heap, i).relevance_score >= At(heap, (i - 1) \div 2).relevance_score
    /\ \A i \in 0..(Len(heap) - 1) :
          At(heap, 0).relevance_score <= At(heap, i).relevance_score

\* an insert after an extraction put a new least record at the root of a
\* heap of three
C19_Witness ==
    /\ phase = "mixed"
    /\ lastOp = "insert"
    /\ Len(drained) >= 1
    /\ Len(heap) = 3
    /\ heap[1] = inserted[Len(inserted)]
    /\ heap[1].relevance_score < heap[2].relevance_score
    /\ heap[1].relevance_score < heap[3].relevance_score

(***************************************************************************)
(* C20: insert adds exactly the given record and raises size() by one;     *)
(* extractMin on a non-empty heap returns a record whose score is minimal  *)
(* among the records held, removes exactly that one record and lowers      *)
(* size() by one; no operation loses, duplicates or alters any other       *)
(* record, so size() equals inserts minus successful extractions (both     *)
(* counted since the heap was last empty).                                 *)
(***************************************************************************)
C20_ContentAccounting ==
    /\ size(heap) = Len(inserted) - Len(drained)
    /\ Cardinality(Elements(heap)) = Len(heap)
    /\ Elements(heap) \cup Elements(drained) = Elements(inserted)
    /\ Elements(heap) \cap Elements(drained) = {}
    /\ lastOp = "insert" =>
          /\ size(heap) = sizeBefore + 1
          /\ inserted[Len(inserted)] \in Elements(heap)
    /\ (lastOp = "extractMin" /\ sizeBefore > 0) =>
          /\ size(heap) = sizeBefore - 1
          /\ lastRet = drained[Len(drained)]
          /\ \A r \in Elements(heap) : lastRet.relevance_score <= r.relevance_score
    /\ lastOp = "peek" => size(heap) = sizeBefore

\* an extraction from a heap of three that inserts and extractions built
C20_Witness ==
    /\ phase = "mixed"
    /\ lastOp = "extractMin"
    /\ sizeBefore = 3
    /\ Len(drained) = 2
    /\ Len(inserted) = MaxInserts
    /\ \E r \in Elements(heap) : lastRet.relevance_score < r.relevance_score

(***************************************************************************)
(* C21: peek never changes the heap: on a non-empty MinHeap it returns the *)
(* record the next extractMin would return (the root), and the backing     *)
(* array and size() are the same before and after the call.                *)
(***************************************************************************)
C21_PeekLeavesHeap ==
    [][lastOp' = "peek" =>
          /\ heap' = heap
          /\ size(heap') = size(heap)
          /\ sizeBefore' = size(heap')
          /\ heap # <<>> =>
                /\ lastRet' = At(heap, 0)
                /\ lastRet' = extractMin(heap').ret]_vars

\* a peek at a heap of three that inserts and extractions built, the root
\* being the only least record
C21_Witness ==
    /\ lastOp = "peek"
    /\ phase = "mixed"
    /\ sizeBefore = 3
    /\ Len(heap) = 3
    /\ lastRet = heap[1]
    /\ lastRet.relevance_score < heap[2].relevance_score
    /\ lastRet.relevance_score < heap[3].relevance_score

(***************************************************************************)
(* C22: in the result of either strategy every record under group key g    *)
(* is a record of the input whose company is g (or whose company is        *)
(* missing and g is "Unknown"), and no input record appears more often in  *)
(* the result than it occurs in the input or under more than one key.      *)
(* The input records are distinct, so each may appear once.                *)
(***************************************************************************)
FiledWhereItBelongs(r, g) ==
    IF "company" \in DOMAIN r THEN r.company = g ELSE g = "Unknown"

NoFabricationNoMisfiling(R) ==
    /\ \A g \in DOMAIN R : \A k \in 1..Len(R[g]) :
          /\ \E j \in 1..Len(bullets) : bullets[j] = R[g][k]
          /\ FiledWhereItBelongs(R[g][k], g)
    /\ \A g, h \in DOMAIN R : \A k \in 1..Len(R[g]) : \A m \in 1..Len(R[h]) :
          R[g][k] = R[h][m] => (g = h /\ k = m)

C22_NoFabricationNoMisfiling ==
    WithinContract => BothResults(NoFabricationNoMisfiling)

\* the same when no record has the empty string as its company
C22_HoldsForNamedCompanies ==
    (\A k \in 1..Len(bullets) :
        "company" \in DOMAIN bullets[k] => bullets[k].company # "")
        => C22_NoFabricationNoMisfiling

(***************************************************************************)
(* C23: the tool-call handler never lets an error escape: for a tool name  *)
(* that is not one of the four registered tools, and for any error raised  *)
(* inside a tool (e.g. fetch_resume_data when N8N_WEBHOOK_URL is not       *)
(* configured), it returns a response with isError true and a text         *)
(* beginning 'Error: '; a successful call returns a response without       *)
(* isError.                                                                *)
(***************************************************************************)
NoArgumentsGiven == "isUndefined" \in DOMAIN args

NoBulletsGiven ==
    \/ NoArgumentsGiven
    \/ "resume_data" \notin DOMAIN args
    \/ "data" \notin DOMAIN args.resume_data

\* the request is one whose tool raises an error, or names no tool
ErrorExpected ==
    CASE toolName = "fetch_resume_data" ->
             \/ NoArgumentsGiven
             \/ webhookUrl \in {{}, {""}}
             \/ fetched # "resolved"
      [] toolName \in {"assign_bullet_ids", "filter_bullets_by_score"} ->
             NoBulletsGiven
      [] toolName = "delete_bullets_by_id" ->
             \/ NoBulletsGiven
             \/ /\ "bullet_ids" \notin DOMAIN args
                /\ args.resume_data.data.bullets # <<>>
      [] OTHER -> TRUE

IsErrorResponse ==
    /\ "isError" \in DOMAIN response
    /\ response.isError = TRUE
    /\ Len(response.content) = 1
    /\ response.content[1].text[1] = "Error: "

C23_ErrorsBecomeResponses ==
    toolPc = "responded" =>
        /\ "content" \in DOMAIN response
        /\ "rejected" \notin DOMAIN response
        /\ IF ErrorExpected THEN IsErrorResponse
           ELSE "isError" \notin DOMAIN response

\* fetch_resume_data was called with a job number and no webhook URL is set
C23_Witness ==
    /\ toolPc = "responded"
    /\ toolName = "fetch_resume_data"
    /\ webhookUrl = {}
    /\ "job_number" \in DOMAIN args
    /\ fetched = "none"
    /\ IsErrorResponse
    /\ response.content[1].text[2] = "N8N_WEBHOOK_URL not configured in .env file"

====
